---- MODULE Spec2Model ----
(***************************************************************************)
(* Event correlation engine of the OpenCode telemetry plugin.              *)
(*                                                                         *)
(* The correlation store (src/src/correlation.ts) keeps four maps keyed by *)
(* call id and permission-request id.  The hook adapter (src/src/index.ts) *)
(* translates the host's hooks into store operations and into calls of the *)
(* metric sink (src/src/metrics.ts).  All callbacks run to completion on   *)
(* one event loop, so every handler is one atomic action.                  *)
(*                                                                         *)
(* Time is Date.now() in milliseconds.  The clock is observed at the       *)
(* granularity of one sweep interval.                                      *)
(***************************************************************************)
EXTENDS Integers, Sequences, FiniteSets, TLC

\* ------------------------------------------------------------------------
\* Program constants
\* ------------------------------------------------------------------------
MAX_CONTEXT_AGE == 60000

SWEEP_INTERVAL == 30000

\* ------------------------------------------------------------------------
\* Bounds of the model
\* ------------------------------------------------------------------------
\* number of clock steps (each of one sweep interval)
MaxTicks == 3

\* number of host events (hook invocations) in a behaviour over all inputs
MaxEvents == 2

\* number of host events in a behaviour that follows a single call
MaxFocusEvents == 5

\* number of host events in a behaviour that leaves the config hook free
MaxGateEvents == 3

\* number of host events in a behaviour that follows two calls side by side
MaxPairEvents == 3

\* number of host events in a behaviour in which two calls share a requestID
MaxReuseEvents == 4

\* length of an endpoint in the environment, in tokens
MaxLen == 4
\* host events and config calls of a behaviour that follows the tracing SDK
MaxTraceEvents == 4

MaxNow == MaxTicks * SWEEP_INTERVAL

\* ------------------------------------------------------------------------
\* Input domains
\* ------------------------------------------------------------------------
CallIds == {"c1", "c2"}

ReqIds == {"r1", "r2"}

\* the (tool, session) pairs the host starts calls with
StartInputs == {[tool |-> "edit", sessionID |-> "s1"], [tool |-> "write", sessionID |-> "s2"]}

\* the (permission, session, filepath) triples the host raises prompts with
AskInputs ==
  { [permission |-> "edit", sessionID |-> "s2", filepath |-> <<"a", "TS">>],
    [permission |-> "bash", sessionID |-> "s1", filepath |-> <<>>] }

Replies == {"once", "always", "reject"}

\* JavaScript undefined, for optional strings
Undef == "undefined"

\* a file path is the sequence of its "."-separated segments; the empty
\* sequence stands for an absent (undefined or empty) path
NoPath == <<>>

\* the filediff objects the host attaches to a tool result; hasAdd / hasDel
\* say whether additions / deletions are defined
Diffs ==
  { [file |-> <<"a", "TS">>, additions |-> 2, deletions |-> 1, hasAdd |-> TRUE, hasDel |-> TRUE],
    [file |-> <<"b", "py">>, additions |-> 0, deletions |-> 3, hasAdd |-> FALSE, hasDel |-> TRUE],
    [file |-> <<"Makefile">>, additions |-> 0, deletions |-> 0, hasAdd |-> FALSE, hasDel |-> FALSE] }

\* output.metadata.filediff: absent (<<>>) or one diff (<<d>>)
Metadata == {<<>>} \cup { <<d>> : d \in Diffs }

\* ------------------------------------------------------------------------
\* Map helpers (JavaScript Map as a function with a finite domain)
\* ------------------------------------------------------------------------
EmptyMap == <<>>

Has(m, k) == k \in DOMAIN m

Put(m, k, v) == [x \in (DOMAIN m) \cup {k} |-> IF x = k THEN v ELSE m[x]]

Del(m, k) == [x \in (DOMAIN m) \ {k} |-> m[x]]

\* ------------------------------------------------------------------------
\* Language classifier
\* ------------------------------------------------------------------------
\* the entries of LANGUAGE_MAP that the modelled paths can hit
LANGUAGE_MAP == [ts |-> "typescript", py |-> "python", md |-> "markdown"]

\* String.prototype.toLowerCase on the extensions in use
toLowerCase(s) == IF s = "TS" THEN "ts" ELSE IF s = "Makefile" THEN "makefile" ELSE s

\* filepath.split(".").pop()?.toLowerCase(), then the table lookup
inferLanguage(filepath) ==
  IF filepath = NoPath THEN "unknown"
  ELSE LET ext == toLowerCase(filepath[Len(filepath)])
       IN IF ext \in DOMAIN LANGUAGE_MAP THEN LANGUAGE_MAP[ext] ELSE "unknown"

\* ------------------------------------------------------------------------
\* State
\* ------------------------------------------------------------------------
VARIABLES
  callContext,         \* callID -> CallContext
  requestToCall,       \* requestID -> callID
  callToRequest,       \* callID -> requestID
  permissionRequests,  \* requestID -> PermissionRequestInfo
  now,                 \* Date.now()
  emitted,             \* observations handed to the metric sink by the last handler
  lastOp,              \* the last handler that ran, with its inputs
  host,                \* the host's own record of each call (tool, session, time of its start)
  lastAsk,             \* history: the inputs of the last permission.asked of each requestID,
                       \* and whether an auto-approval record of its call preceded it
  everAsked,           \* history: callIDs some permission.asked has carried
  askedSince,          \* history: callIDs some permission.asked has carried since their last start
  staleLink,           \* history: callIDs whose last start found them in callToRequest
  permLog,             \* history: permission observations emitted so far
  enabled,             \* metrics.ts: the sink's instruments exist and record
  fault,               \* some handler has terminated with an error
  switchedOn,          \* history: some config call had openTelemetry set and initialized
  configured,          \* the configs the last handler handed to Metrics / Traces.initialize
  loc,                 \* metrics.ts: totals of locAddedCounter and locDeletedCounter
  diffSum,             \* history: additions / deletions of the filediffs of the toolEnds that
                       \* found a context while the sink was enabled
  firstSeen,           \* history: time of the first event concerning each callID / requestID,
                       \* -1 for none
  tracing,             \* traces.ts: sdk (0 for undefined, else the number of the NodeSDK
                       \* instance) and initialized, with the history of how many
                       \* instances were constructed and how many start() calls made
  mode,                \* how the behaviour is explored (fixed at the start)
  budget               \* number of host events still to come

vars == <<callContext, requestToCall, callToRequest, permissionRequests, now,
          emitted, lastOp, host, lastAsk, everAsked, askedSince, staleLink, permLog,
          enabled, fault, switchedOn, configured, loc, diffSum, firstSeen, tracing, mode, budget>>

store == [callContext |-> callContext, requestToCall |-> requestToCall,
          callToRequest |-> callToRequest, permissionRequests |-> permissionRequests]

\* ------------------------------------------------------------------------
\* Correlation store operations, as functions of the store
\* ------------------------------------------------------------------------
\* registerToolStart updating the context it finds instead of replacing it
registerToolStart_merge(S, callID, tool, sessionID, t) ==
  IF Has(S.callContext, callID)
  THEN [S EXCEPT !.callContext[callID].tool = tool,
                 !.callContext[callID].sessionID = sessionID,
                 !.callContext[callID].startTime = t]
  ELSE [S EXCEPT !.callContext =
          Put(S.callContext, callID,
              [tool |-> tool, sessionID |-> sessionID, startTime |-> t,
               decision |-> Undef, filediff |-> <<>>, files |-> <<>>, language |-> Undef])]

\* registerToolStart dropping the permission link of the callID it reuses
registerToolStart_unlink(S, callID, tool, sessionID, t) ==
  LET S1 == [S EXCEPT !.callContext =
               Put(S.callContext, callID,
                   [tool |-> tool, sessionID |-> sessionID, startTime |-> t,
                    decision |-> Undef, filediff |-> <<>>, files |-> <<>>, language |-> Undef])]
  IN IF Has(S.callToRequest, callID)
     THEN [S1 EXCEPT !.requestToCall = Del(S.requestToCall, S.callToRequest[callID]),
                     !.callToRequest = Del(S.callToRequest, callID)]
     ELSE S1

registerToolStart(S, callID, tool, sessionID, t) ==
  [S EXCEPT !.callContext =
     Put(S.callContext, callID,
         [tool |-> tool, sessionID |-> sessionID, startTime |-> t,
          decision |-> Undef, filediff |-> <<>>, files |-> <<>>, language |-> Undef])]

\* registerToolEnd storing the metadata as a new context object
registerToolEnd_replace(S, callID, filediff, files, language) ==
  IF ~Has(S.callContext, callID) THEN S
  ELSE [S EXCEPT !.callContext =
          Put(S.callContext, callID,
              [tool |-> Undef, sessionID |-> Undef,
               startTime |-> S.callContext[callID].startTime, decision |-> Undef,
               filediff |-> filediff, files |-> files, language |-> language])]

\* metadata = {filediff, files, language}; filediff and files are absent
\* (<<>>) or present (<<v>>); an empty files array is truthy in JavaScript
registerToolEnd(S, callID, filediff, files, language) ==
  IF ~Has(S.callContext, callID) THEN S
  ELSE LET ctx == S.callContext[callID]
           c1 == IF filediff # <<>> THEN [ctx EXCEPT !.filediff = filediff] ELSE ctx
           c2 == IF files # <<>> THEN [c1 EXCEPT !.files = files] ELSE c1
           c3 == IF language # Undef /\ language # "" THEN [c2 EXCEPT !.language = language] ELSE c2
       IN [S EXCEPT !.callContext = Put(S.callContext, callID, c3)]

\* registerPermissionAsked keeping a single pending link
registerPermissionAsked_single(S, requestID, permission, sessionID, callID, t) ==
  LET S1 == [S EXCEPT !.permissionRequests =
               Put(S.permissionRequests, requestID,
                   [requestID |-> requestID, permission |-> permission,
                    callID |-> callID, sessionID |-> sessionID, timestamp |-> t])]
  IN IF callID # Undef
     THEN [S1 EXCEPT !.requestToCall = Put(EmptyMap, requestID, callID),
                     !.callToRequest = Put(EmptyMap, callID, requestID)]
     ELSE S1

\* registerPermissionAsked opening a context for a call it does not know
registerPermissionAsked_open(S, requestID, permission, sessionID, callID, t) ==
  LET S1 == [S EXCEPT !.permissionRequests =
               Put(S.permissionRequests, requestID,
                   [requestID |-> requestID, permission |-> permission,
                    callID |-> callID, sessionID |-> sessionID, timestamp |-> t])]
      S2 == IF callID # Undef /\ ~Has(S.callContext, callID)
            THEN [S1 EXCEPT !.callContext =
                    Put(S.callContext, callID,
                        [tool |-> Undef, sessionID |-> sessionID, startTime |-> t,
                         decision |-> Undef, filediff |-> <<>>, files |-> <<>>,
                         language |-> Undef])]
            ELSE S1
  IN IF callID # Undef
     THEN [S2 EXCEPT !.requestToCall = Put(S.requestToCall, requestID, callID),
                     !.callToRequest = Put(S.callToRequest, callID, requestID)]
     ELSE S2

\* the fifth argument the adapter passes (filepath) has no parameter here
registerPermissionAsked(S, requestID, permission, sessionID, callID, t) ==
  LET S1 == [S EXCEPT !.permissionRequests =
               Put(S.permissionRequests, requestID,
                   [requestID |-> requestID, permission |-> permission,
                    callID |-> callID, sessionID |-> sessionID, timestamp |-> t])]
  IN IF callID # Undef
     THEN [S1 EXCEPT !.requestToCall = Put(S.requestToCall, requestID, callID),
                     !.callToRequest = Put(S.callToRequest, callID, requestID)]
     ELSE S1

\* getPermissionRequest answering a missing key with a blank record
getPermissionRequest_default(S, requestID) ==
  IF Has(S.permissionRequests, requestID) THEN <<S.permissionRequests[requestID]>>
  ELSE <<[requestID |-> requestID, permission |-> Undef, callID |-> Undef,
          sessionID |-> Undef, timestamp |-> 0]>>

getPermissionRequest(S, requestID) ==
  IF Has(S.permissionRequests, requestID) THEN <<S.permissionRequests[requestID]>> ELSE <<>>

\* registerPermissionReplied writing the decision into every context
registerPermissionReplied_all(S, requestID, decision) ==
  IF ~Has(S.requestToCall, requestID) THEN S
  ELSE LET callID == S.requestToCall[requestID]
       IN IF Has(S.callContext, callID)
          THEN [S EXCEPT !.callContext =
                  [x \in DOMAIN S.callContext |->
                     [S.callContext[x] EXCEPT !.decision = decision]]]
          ELSE S

\* registerPermissionReplied creating the context it does not find
registerPermissionReplied_create(S, requestID, decision) ==
  IF ~Has(S.requestToCall, requestID) THEN S
  ELSE LET callID == S.requestToCall[requestID]
       IN IF Has(S.callContext, callID)
          THEN [S EXCEPT !.callContext[callID].decision = decision]
          ELSE [S EXCEPT !.callContext =
                  Put(S.callContext, callID,
                      [tool |-> Undef, sessionID |-> Undef, startTime |-> 0,
                       decision |-> decision, filediff |-> <<>>, files |-> <<>>,
                       language |-> Undef])]

registerPermissionReplied(S, requestID, decision) ==
  IF ~Has(S.requestToCall, requestID) THEN S
  ELSE LET callID == S.requestToCall[requestID]
       IN IF Has(S.callContext, callID)
          THEN [S EXCEPT !.callContext[callID].decision = decision]
          ELSE S

getContextForCall(S, callID) ==
  IF Has(S.callContext, callID) THEN <<S.callContext[callID]>> ELSE <<>>

\* permissionInfo.filepath: reading a property the object may not have
filepathOf(permissionInfo) ==
  IF "filepath" \in DOMAIN permissionInfo THEN permissionInfo.filepath ELSE NoPath

getCallIDForRequest(S, requestID) ==
  IF Has(S.requestToCall, requestID) THEN S.requestToCall[requestID] ELSE Undef

\* historical presence of the call in the reverse index
wasPermissionAskedForCall(S, callID) == Has(S.callToRequest, callID)

\* one iteration of the loop over staleCallIDs
evictCall(S, callID) ==
  LET S1 == [S EXCEPT !.callContext = Del(S.callContext, callID)]
  IN IF Has(S1.callToRequest, callID)
     THEN LET requestID == S1.callToRequest[callID]
          IN [S1 EXCEPT !.requestToCall = Del(S1.requestToCall, requestID),
                        !.callToRequest = Del(S1.callToRequest, callID)]
     ELSE S1

\* one iteration of the loop over staleRequestIDs
evictRequest(S, requestID) ==
  LET S1 == [S EXCEPT !.permissionRequests = Del(S.permissionRequests, requestID)]
  IN IF Has(S1.requestToCall, requestID)
     THEN LET callID == S1.requestToCall[requestID]
          IN [S1 EXCEPT !.requestToCall = Del(S1.requestToCall, requestID),
                        !.callToRequest = Del(S1.callToRequest, callID)]
     ELSE S1

RECURSIVE evictCalls(_, _)
evictCalls(S, ids) ==
  IF ids = {} THEN S
  ELSE LET callID == CHOOSE x \in ids : TRUE
       IN evictCalls(evictCall(S, callID), ids \ {callID})

RECURSIVE evictRequests(_, _)
evictRequests(S, ids) ==
  IF ids = {} THEN S
  ELSE LET requestID == CHOOSE x \in ids : TRUE
       IN evictRequests(evictRequest(S, requestID), ids \ {requestID})

\* staleCallIDs measuring the age from the wrong end
staleCallIDs_reversed(S, t) ==
  {callID \in DOMAIN S.callContext : S.callContext[callID].startTime - t > MAX_CONTEXT_AGE}

\* staleCallIDs evicting at the TTL itself
staleCallIDs_inclusive(S, t) ==
  {callID \in DOMAIN S.callContext : t - S.callContext[callID].startTime >= MAX_CONTEXT_AGE}

staleCallIDs(S, t) ==
  {callID \in DOMAIN S.callContext : t - S.callContext[callID].startTime > MAX_CONTEXT_AGE}

staleRequestIDs(S, t) ==
  {requestID \in DOMAIN S.permissionRequests :
     t - S.permissionRequests[requestID].timestamp > MAX_CONTEXT_AGE}

\* cleanup sweeping the call contexts alone
cleanup_callsOnly(S, t) == evictCalls(S, staleCallIDs(S, t))

\* cleanup sweeping the requests only when no call was stale
cleanup_elseIf(S, t) ==
  IF staleCallIDs(S, t) # {}
  THEN evictCalls(S, staleCallIDs(S, t))
  ELSE evictRequests(S, staleRequestIDs(S, t))

\* both stale lists are collected before anything is deleted
cleanup(S, t) ==
  evictRequests(evictCalls(S, staleCallIDs(S, t)), staleRequestIDs(S, t))

\* ------------------------------------------------------------------------
\* Hook adapter: the observations a handler hands to the metric sink
\* ------------------------------------------------------------------------
ToolObs(tool, duration, sessionID, language) ==
  [kind |-> "tool", tool |-> tool, status |-> "success", duration |-> duration,
   sessionID |-> sessionID, language |-> language]

LocObs(tool, additions, deletions, sessionID, language, file, callID) ==
  [kind |-> "loc", tool |-> tool, additions |-> additions, deletions |-> deletions,
   sessionID |-> sessionID, language |-> language, file |-> file, callID |-> callID]

PermObs(permission, reply, sessionID, tool, language, callID, filepath, autoApproveEdit) ==
  [kind |-> "permission", permission |-> permission, reply |-> reply,
   sessionID |-> sessionID, tool |-> tool, language |-> language, callID |-> callID,
   filepath |-> filepath, autoApproveEdit |-> autoApproveEdit]

\* language and files as tool.execute.after computes them from the filediff
afterLanguage(md) ==
  IF md # <<>> /\ md[1].file # NoPath THEN inferLanguage(md[1].file) ELSE "unknown"

afterFiles(md) ==
  IF md # <<>> /\ md[1].file # NoPath THEN <<md[1].file>> ELSE <<>>

\* filediff.additions || 0
orZero(present, n) == IF present THEN n ELSE 0

\* afterObs with the auto-approval test inverted
afterObs_inverted(S, t, callID, tool, sessionID, md) ==
  IF ~Has(S.callContext, callID) THEN <<>>
  ELSE LET ctx == S.callContext[callID]
           duration == t - ctx.startTime
           language == afterLanguage(md)
           toolObs1 == <<ToolObs(tool, duration, sessionID, language)>>
       IN IF md # <<>> /\ (md[1].hasAdd \/ md[1].hasDel)
          THEN LET filediff == md[1]
                   locObs1 == <<LocObs(tool, orZero(filediff.hasAdd, filediff.additions),
                                       orZero(filediff.hasDel, filediff.deletions),
                                       sessionID, language, filediff.file, callID)>>
               IN IF wasPermissionAskedForCall(S, callID)
                  THEN toolObs1 \o locObs1 \o
                       <<PermObs("edit", "auto", sessionID, tool, language, callID,
                                 filediff.file, TRUE)>>
                  ELSE toolObs1 \o locObs1
          ELSE toolObs1

\* afterObs recording lines of code for every filediff, counted or not
afterObs_anyDiff(S, t, callID, tool, sessionID, md) ==
  IF ~Has(S.callContext, callID) THEN <<>>
  ELSE LET ctx == S.callContext[callID]
           duration == t - ctx.startTime
           language == afterLanguage(md)
           toolRec == <<ToolObs(tool, duration, sessionID, language)>>
       IN IF md # <<>>
          THEN LET filediff == md[1]
                   locRec == <<LocObs(tool, orZero(filediff.hasAdd, filediff.additions),
                                      orZero(filediff.hasDel, filediff.deletions),
                                      sessionID, language, filediff.file, callID)>>
                   permissionWasAsked == wasPermissionAskedForCall(S, callID)
               IN IF ~permissionWasAsked
                  THEN toolRec \o locRec \o
                       <<PermObs("edit", "auto", sessionID, tool, language, callID,
                                 filediff.file, TRUE)>>
                  ELSE toolRec \o locRec
          ELSE toolRec

\* the calls of Metrics.record* made by tool.execute.after, in order
afterObs(S, t, callID, tool, sessionID, md) ==
  IF ~Has(S.callContext, callID) THEN <<>>
  ELSE LET ctx == S.callContext[callID]
           duration == t - ctx.startTime
           language == afterLanguage(md)
           toolRec == <<ToolObs(tool, duration, sessionID, language)>>
       IN IF md # <<>> /\ (md[1].hasAdd \/ md[1].hasDel)
          THEN LET filediff == md[1]
                   locRec == <<LocObs(tool, orZero(filediff.hasAdd, filediff.additions),
                                      orZero(filediff.hasDel, filediff.deletions),
                                      sessionID, language, filediff.file, callID)>>
                   permissionWasAsked == wasPermissionAskedForCall(S, callID)
               IN IF ~permissionWasAsked
                  THEN toolRec \o locRec \o
                       <<PermObs("edit", "auto", sessionID, tool, language, callID,
                                 filediff.file, TRUE)>>
                  ELSE toolRec \o locRec
          ELSE toolRec

\* afterStore creating the context it does not find
afterStore_upsert(S, callID, md) ==
  IF ~Has(S.callContext, callID)
  THEN registerToolEnd(registerToolStart(S, callID, Undef, Undef, 0),
                       callID, md, <<afterFiles(md)>>, afterLanguage(md))
  ELSE registerToolEnd(S, callID, md, <<afterFiles(md)>>, afterLanguage(md))

\* the store after tool.execute.after
afterStore(S, callID, md) ==
  IF ~Has(S.callContext, callID) THEN S
  ELSE registerToolEnd(S, callID, md, <<afterFiles(md)>>, afterLanguage(md))

\* repliedObs with the session taken from the call context when there is one
repliedObs_ctxSession(S, requestID, reply) ==
  LET found == getPermissionRequest(S, requestID)
  IN IF found = <<>> THEN <<>>
     ELSE LET permissionInfo == found[1]
              ctxo == IF permissionInfo.callID # Undef
                      THEN getContextForCall(S, permissionInfo.callID) ELSE <<>>
              toolName == IF ctxo # <<>> THEN ctxo[1].tool ELSE "unknown"
              language == IF ctxo # <<>> /\ ctxo[1].language # Undef
                          THEN ctxo[1].language ELSE "unknown"
              filepath == IF ctxo # <<>> /\ ctxo[1].filediff # <<>>
                          THEN ctxo[1].filediff[1].file ELSE NoPath
              sessionID == IF ctxo # <<>> THEN ctxo[1].sessionID ELSE permissionInfo.sessionID
          IN <<PermObs(permissionInfo.permission, reply, sessionID,
                       toolName, language, permissionInfo.callID, filepath, FALSE)>>

\* repliedObs leaving the language out
repliedObs_noLanguage(S, requestID, reply) ==
  LET found == getPermissionRequest(S, requestID)
  IN IF found = <<>> THEN <<>>
     ELSE LET permissionInfo == found[1]
              ctxo == IF permissionInfo.callID # Undef
                      THEN getContextForCall(S, permissionInfo.callID) ELSE <<>>
              toolName == IF ctxo # <<>> THEN ctxo[1].tool ELSE "unknown"
              filepath == IF ctxo # <<>> /\ ctxo[1].filediff # <<>>
                          THEN ctxo[1].filediff[1].file ELSE NoPath
          IN <<PermObs(permissionInfo.permission, reply, permissionInfo.sessionID,
                       toolName, "unknown", permissionInfo.callID, filepath, FALSE)>>

\* repliedObs keeping quiet about a call whose context already holds a diff
repliedObs_dedupe(S, requestID, reply) ==
  LET found == getPermissionRequest(S, requestID)
  IN IF found = <<>> THEN <<>>
     ELSE LET permissionInfo == found[1]
              ctxo == IF permissionInfo.callID # Undef
                      THEN getContextForCall(S, permissionInfo.callID) ELSE <<>>
              toolName == IF ctxo # <<>> THEN ctxo[1].tool ELSE "unknown"
              language == IF ctxo # <<>> /\ ctxo[1].language # Undef
                          THEN ctxo[1].language ELSE "unknown"
              filepath == IF ctxo # <<>> /\ ctxo[1].filediff # <<>>
                          THEN ctxo[1].filediff[1].file ELSE NoPath
          IN IF ctxo # <<>> /\ ctxo[1].filediff # <<>> THEN <<>>
             ELSE <<PermObs(permissionInfo.permission, reply, permissionInfo.sessionID,
                           toolName, language, permissionInfo.callID, filepath, FALSE)>>

\* the calls of Metrics.record* made by the permission.replied handler
repliedObs(S, requestID, reply) ==
  LET found == getPermissionRequest(S, requestID)
  IN IF found = <<>> THEN <<>>
     ELSE LET permissionInfo == found[1]
              ctxo == IF permissionInfo.callID # Undef
                      THEN getContextForCall(S, permissionInfo.callID) ELSE <<>>
              toolName == IF ctxo # <<>> THEN ctxo[1].tool ELSE "unknown"
              language == IF ctxo # <<>> /\ ctxo[1].language # Undef
                          THEN ctxo[1].language ELSE "unknown"
              \* permissionInfo.filepath is never stored, so it reads undefined
              filepath == IF ctxo # <<>> /\ ctxo[1].filediff # <<>>
                          THEN ctxo[1].filediff[1].file ELSE NoPath
          IN <<PermObs(permissionInfo.permission, reply, permissionInfo.sessionID,
                       toolName, language, permissionInfo.callID, filepath, FALSE)>>

\* the store after the permission.replied handler
repliedStore(S, requestID, reply) ==
  LET found == getPermissionRequest(S, requestID)
  IN IF found = <<>> THEN S
     ELSE IF found[1].callID # Undef
          THEN registerPermissionReplied(S, requestID, reply)
          ELSE S

\* ------------------------------------------------------------------------
\* Metric sink: what a Metrics.record* call does to the instruments.  The
\* instruments are created by Metrics.initialize just before it sets
\* enabled, so using one while enabled is false is a call on undefined.
\* ------------------------------------------------------------------------
Point(instrument, value, o) == [instrument |-> instrument, value |-> value, of |-> o]

RecordResult(updates, threw) == [updates |-> updates, threw |-> threw]

\* recordLinesOfCode adding to both counters whatever the values
recordLinesOfCode_always(en, input) ==
  IF ~en THEN RecordResult(<<>>, FALSE)
  ELSE RecordResult(<<Point("loc.added", input.additions, input),
                      Point("loc.deleted", input.deletions, input)>>, FALSE)

recordLinesOfCode(en, input) ==
  IF ~en THEN RecordResult(<<>>, FALSE)
  ELSE RecordResult(
         (IF input.additions > 0 THEN <<Point("loc.added", input.additions, input)>> ELSE <<>>)
         \o (IF input.deletions > 0 THEN <<Point("loc.deleted", input.deletions, input)>> ELSE <<>>),
         FALSE)

\* recordToolExecution without its first line
recordToolExecution_unguarded(en, input) ==
  IF ~en THEN RecordResult(<<>>, TRUE)
  ELSE RecordResult(<<Point("tool.executions", 1, input),
                      Point("tool.duration", input.duration, input)>>, FALSE)

recordToolExecution(en, input) ==
  IF ~en THEN RecordResult(<<>>, FALSE)
  ELSE RecordResult(<<Point("tool.executions", 1, input),
                      Point("tool.duration", input.duration, input)>>, FALSE)

\* recordPermissionRequest counting whether or not the sink is enabled
recordPermissionRequest_ungated(en, input) ==
  RecordResult(<<Point("permission.requests", 1, input)>>, FALSE)

recordPermissionRequest(en, input) ==
  IF ~en THEN RecordResult(<<>>, FALSE)
  ELSE RecordResult(<<Point("permission.requests", 1, input)>>, FALSE)

\* the Metrics.record* call an observation stands for
record(en, o) ==
  IF o.kind = "loc" THEN recordLinesOfCode(en, o)
  ELSE IF o.kind = "tool" THEN recordToolExecution(en, o)
  ELSE recordPermissionRequest(en, o)

\* the calls of a handler, in order, up to the first that throws
RECURSIVE recordAll(_, _)
recordAll(en, obs) ==
  IF obs = <<>> THEN RecordResult(<<>>, FALSE)
  ELSE LET first == record(en, Head(obs))
       IN IF first.threw THEN first
          ELSE LET rest == recordAll(en, Tail(obs))
               IN RecordResult(first.updates \o rest.updates, rest.threw)

\* the sum of the values the updates add to an instrument
RECURSIVE added(_, _)
added(updates, instrument) ==
  IF updates = <<>> THEN 0
  ELSE (IF Head(updates).instrument = instrument THEN Head(updates).value ELSE 0)
       + added(Tail(updates), instrument)

\* the totals of the two LOC counters after Counter.add for each update
count(totals, updates) ==
  [added |-> totals.added + added(updates, "loc.added"),
   deleted |-> totals.deleted + added(updates, "loc.deleted")]

\* ------------------------------------------------------------------------
\* Configuration from the environment (src/src/config.ts).  A string is the
\* sequence of its tokens; the empty sequence stands for an unset or empty
\* variable, both falsy under ||.
\* ------------------------------------------------------------------------
METRICS_PATH == <<"/", "v1/metrics">>

TRACES_PATH == <<"/", "v1/traces">>

DEFAULT_ENDPOINT == <<"http://localhost:4318">>

\* String.prototype.endsWith
endsWith(str, suffix) ==
  /\ Len(str) >= Len(suffix)
  /\ SubSeq(str, Len(str) - Len(suffix) + 1, Len(str)) = suffix

\* endpoint.replace(/\/$/, "")
dropTrailingSlash(str) ==
  IF str # <<>> /\ str[Len(str)] = "/" THEN SubSeq(str, 1, Len(str) - 1) ELSE str

\* a || b on strings
orElse(a, b) == IF a # <<>> THEN a ELSE b

parseMetricsConfig(env) ==
  LET endpoint == orElse(env.metrics, orElse(env.general, DEFAULT_ENDPOINT))
      protocol == IF env.protocol # "" THEN env.protocol ELSE "http"
  IN [enabled |-> TRUE,
      endpoint |-> IF protocol = "http" /\ ~endsWith(endpoint, METRICS_PATH)
                   THEN dropTrailingSlash(endpoint) \o METRICS_PATH
                   ELSE endpoint,
      protocol |-> protocol]

parseTracesConfig(env) ==
  LET endpoint == orElse(env.traces, orElse(env.general, DEFAULT_ENDPOINT))
      protocol == IF env.protocol # "" THEN env.protocol ELSE "http"
  IN [enabled |-> TRUE,
      endpoint |-> IF protocol = "http" /\ ~endsWith(endpoint, TRACES_PATH)
                   THEN dropTrailingSlash(endpoint) \o TRACES_PATH
                   ELSE endpoint,
      protocol |-> protocol]

\* ------------------------------------------------------------------------
\* Actions: one per hook callback, plus the sweep and the clock
\* ------------------------------------------------------------------------
\* the first event concerning the keys in ks happens now, unless an earlier
\* one did; the history is kept in the mode "reuse"
seen(ks) ==
  firstSeen' = IF mode = "reuse"
               THEN [k \in DOMAIN firstSeen |->
                       IF k \in ks /\ firstSeen[k] < 0 THEN now ELSE firstSeen[k]]
               ELSE firstSeen

\* ------------------------------------------------------------------------
\* Tracing SDK (src/src/traces.ts).  A NodeSDK instance is the number of
\* its construction; what the constructors and start() do is the host's:
\* all goes well, a constructor throws, or start() throws.
\* ------------------------------------------------------------------------
TraceOutcomes == {"started", "ctorThrows", "startThrows"}

NoTracing == [sdk |-> 0, initialized |-> FALSE, created |-> 0, starts |-> 0]

\* the first line of initialize: nothing to do
returnsEarly(T, config) == ~config.enabled \/ config.endpoint = <<>> \/ T.initialized

\* initialize without the test of initialized
TracesInitialize_again(T, config, outcome) ==
  IF ~config.enabled \/ config.endpoint = <<>> THEN T
  ELSE IF outcome = "ctorThrows" THEN T
  ELSE [sdk |-> T.created + 1, created |-> T.created + 1, starts |-> T.starts + 1,
        initialized |-> (T.initialized \/ outcome = "started")]

\* Traces.initialize(config)
TracesInitialize(T, config, outcome) ==
  IF returnsEarly(T, config) THEN T
  ELSE IF outcome = "ctorThrows" THEN T
  ELSE [sdk |-> T.created + 1, created |-> T.created + 1, starts |-> T.starts + 1,
        initialized |-> (T.initialized \/ outcome = "started")]

\* what the call did: "skipped" (returned at its first line), "started" or
\* "failed" (the catch block)
initializeResult(T, config, outcome) ==
  IF returnsEarly(T, config) THEN "skipped"
  ELSE IF outcome = "started" THEN "started" ELSE "failed"

\* the host calls the config hook: in the mode "gate" at any time, in the
\* mode "env" once, at its start, in the mode "trace" as one of the events
\* of the behaviour, otherwise until telemetry is switched on
configEvent ==
  IF mode = "gate" THEN TRUE
  ELSE IF mode = "env" THEN lastOp.op = "init"
  ELSE IF mode = "trace" THEN budget > 0
  ELSE ~enabled

Op(op, callID, requestID, reply, md, filepath) ==
  [op |-> op, callID |-> callID, requestID |-> requestID, reply |-> reply,
   md |-> md, filepath |-> filepath]

\* the permission observations of a handler's output, as history entries
permEntries(obs) ==
  { [callID |-> obs[i].callID, reply |-> obs[i].reply,
     autoApproveEdit |-> obs[i].autoApproveEdit] :
    i \in {j \in DOMAIN obs : obs[j].kind = "permission"} }

\* the history entry of the synthetic auto-approval record of callID
autoEntry(callID) == [callID |-> callID, reply |-> "auto", autoApproveEdit |-> TRUE]

setStore(S) ==
  /\ callContext' = S.callContext
  /\ requestToCall' = S.requestToCall
  /\ callToRequest' = S.callToRequest
  /\ permissionRequests' = S.permissionRequests

\* a host event arrives: in the modes "all" and "call" the host has switched
\* telemetry on before its first event, in the mode "gate" it need not have
hostEvent == budget > 0 /\ (mode = "gate" \/ enabled)

\* "tool.execute.before"
ToolExecuteBefore(callID, tool, sessionID) ==
  /\ hostEvent
  /\ setStore(registerToolStart(store, callID, tool, sessionID, now))
  /\ host' = [host EXCEPT ![callID] = [tool |-> tool, sessionID |-> sessionID, startTime |-> now]]
  /\ emitted' = <<>>
  /\ lastOp' = Op("toolStart", callID, Undef, Undef, <<>>, NoPath)
  /\ askedSince' = askedSince \ {callID}
  /\ staleLink' = IF Has(callToRequest, callID) THEN staleLink \cup {callID}
                  ELSE staleLink \ {callID}
  /\ budget' = budget - 1
  /\ configured' = <<>>
  /\ seen({callID})
  /\ UNCHANGED <<now, lastAsk, everAsked, permLog, enabled, fault, switchedOn, loc, diffSum, tracing, mode>>

\* "tool.execute.after"; the host passes the tool and session of the call
\* registerToolEnd comes after the Metrics.record* calls
ToolExecuteAfter(callID, md) ==
  /\ hostEvent
  /\ LET obs == afterObs(store, now, callID, host[callID].tool, host[callID].sessionID, md)
         sink == recordAll(enabled, obs)
     IN /\ emitted' = obs
        /\ permLog' = permLog \cup permEntries(obs)
        /\ fault' = (fault \/ sink.threw)
        /\ loc' = count(loc, sink.updates)
        /\ setStore(IF sink.threw THEN store ELSE afterStore(store, callID, md))
  /\ diffSum' = IF enabled /\ Has(callContext, callID) /\ md # <<>>
                THEN [added |-> diffSum.added + orZero(md[1].hasAdd, md[1].additions),
                      deleted |-> diffSum.deleted + orZero(md[1].hasDel, md[1].deletions)]
                ELSE diffSum
  /\ lastOp' = Op("toolEnd", callID, Undef, Undef, md, NoPath)
  /\ budget' = budget - 1
  /\ configured' = <<>>
  /\ seen({callID})
  /\ UNCHANGED <<now, host, lastAsk, everAsked, askedSince, staleLink, enabled, switchedOn, tracing, mode>>

\* event hook, type "permission.asked"
EventPermissionAsked(requestID, permission, sessionID, callID, filepath) ==
  /\ hostEvent
  /\ setStore(registerPermissionAsked(store, requestID, permission, sessionID, callID, now))
  /\ emitted' = <<>>
  /\ lastOp' = Op("asked", callID, requestID, Undef, <<>>, filepath)
  /\ lastAsk' = [lastAsk EXCEPT ![requestID] =
                  [permission |-> permission, sessionID |-> sessionID, callID |-> callID,
                   filepath |-> filepath, timestamp |-> now,
                   late |-> (callID # Undef /\ autoEntry(callID) \in permLog)]]
  /\ everAsked' = IF callID # Undef THEN everAsked \cup {callID} ELSE everAsked
  /\ askedSince' = IF callID # Undef THEN askedSince \cup {callID} ELSE askedSince
  /\ budget' = budget - 1
  /\ configured' = <<>>
  /\ seen({requestID, callID})
  /\ UNCHANGED <<now, host, staleLink, permLog, enabled, fault, switchedOn, loc, diffSum, tracing, mode>>

\* event hook, type "permission.replied"
\* registerPermissionReplied comes before the Metrics.record* call
EventPermissionReplied(requestID, reply) ==
  /\ hostEvent
  /\ LET obs == repliedObs(store, requestID, reply)
         sink == recordAll(enabled, obs)
     IN /\ emitted' = obs
        /\ permLog' = permLog \cup permEntries(obs)
        /\ fault' = (fault \/ sink.threw)
        /\ loc' = count(loc, sink.updates)
  /\ setStore(repliedStore(store, requestID, reply))
  /\ lastOp' = Op("replied", Undef, requestID, reply, <<>>, NoPath)
  /\ budget' = budget - 1
  /\ configured' = <<>>
  /\ seen({requestID})
  /\ UNCHANGED <<now, host, lastAsk, everAsked, askedSince, staleLink, enabled, switchedOn,
                 diffSum, tracing, mode>>

\* the interval timer's callback, or a direct call of cleanup()
Cleanup ==
  /\ setStore(cleanup(store, now))
  /\ emitted' = <<>>
  /\ lastOp' = Op("cleanup", Undef, Undef, Undef, <<>>, NoPath)
  /\ configured' = <<>>
  /\ UNCHANGED <<now, host, lastAsk, everAsked, askedSince, staleLink, permLog,
                 enabled, fault, switchedOn, loc, diffSum, firstSeen, tracing, mode, budget>>

\* the config hook: openTelemetry is the host's experimental.openTelemetry
\* flag, env is process.env when the hook runs, initOk says whether
\* Metrics.initialize gets through (the endpoint is a valid URL and the SDK
\* constructors do not throw)
Config(openTelemetry, initOk, env, outcome) ==
  /\ configEvent
  /\ enabled' = (enabled \/ (openTelemetry /\ initOk))
  /\ switchedOn' = (switchedOn \/ (openTelemetry /\ initOk))
  /\ configured' = IF openTelemetry
                   THEN <<[env |-> env, metrics |-> parseMetricsConfig(env),
                           traces |-> parseTracesConfig(env),
                           result |-> initializeResult(tracing, parseTracesConfig(env), outcome)]>>
                   ELSE <<>>
  /\ tracing' = IF openTelemetry
                THEN TracesInitialize(tracing, parseTracesConfig(env), outcome)
                ELSE tracing
  /\ budget' = IF mode = "trace" THEN budget - 1 ELSE budget
  /\ emitted' = <<>>
  /\ lastOp' = Op("config", Undef, Undef, Undef, <<>>, NoPath)
  /\ UNCHANGED <<callContext, requestToCall, callToRequest, permissionRequests, now,
                 host, lastAsk, everAsked, askedSince, staleLink, permLog, fault,
                 loc, diffSum, firstSeen, mode>>

\* the clock advances by one sweep interval
Tick ==
  /\ now + SWEEP_INTERVAL <= MaxNow
  /\ now' = now + SWEEP_INTERVAL
  /\ emitted' = <<>>
  /\ lastOp' = Op("tick", Undef, Undef, Undef, <<>>, NoPath)
  /\ configured' = <<>>
  /\ UNCHANGED <<callContext, requestToCall, callToRequest, permissionRequests,
                 host, lastAsk, everAsked, askedSince, staleLink, permLog,
                 enabled, fault, switchedOn, loc, diffSum, firstSeen, tracing, mode, budget>>

\* A behaviour is explored in one of four ways, fixed at its start: over
\* all inputs with a short run of host events ("all"); along one call (one
\* callID, tool and session, both permission requests) with a longer run
\* ("call"); along one call with the config hook called at any time, with
\* any outcome, or never ("gate"); along two calls, each with a permission
\* request of its own ("pair"); along two calls that share one requestID
\* ("reuse"); along one call with the environment of the config hook drawn
\* from all short endpoints ("env"); along one call with the config hook
\* called again and again and the tracing SDK failing or not ("trace").
Modes == {"all", "call"}

Budget(m) ==
  IF m = "call" THEN MaxFocusEvents
  ELSE IF m = "gate" THEN MaxGateEvents
  ELSE IF m = "pair" THEN MaxPairEvents
  ELSE IF m = "reuse" THEN MaxReuseEvents
  ELSE IF m = "trace" THEN MaxTraceEvents
  ELSE MaxEvents

\* in the mode "pair" request r1 belongs to call c1 and request r2 to call c2
paired(m, requestID, callID) ==
  m = "pair" => <<requestID, callID>> \in {<<"r1", "c1">>, <<"r2", "c2">>}

CallsOf(m) == IF m \in {"call", "gate", "env", "trace"} THEN {"c1"} ELSE CallIds

ReqsOf(m) == IF m = "reuse" THEN {"r1"} ELSE ReqIds

StartsOf(m) == IF m # "all" THEN {[tool |-> "edit", sessionID |-> "s1"]} ELSE StartInputs

AsksOf(m) ==
  IF m # "all"
  THEN {[permission |-> "edit", sessionID |-> "s2", filepath |-> <<"a", "TS">>]}
  ELSE AskInputs

AskCallsOf(m) ==
  IF m \in {"call", "gate", "env", "trace"} THEN {"c1"}
  ELSE IF m \in {"pair", "reuse"} THEN CallIds
  ELSE CallIds \cup {Undef}

MetadataOf(m) ==
  IF m # "all"
  THEN { <<>>,
         <<[file |-> <<"a", "TS">>, additions |-> 2, deletions |-> 1,
            hasAdd |-> TRUE, hasDel |-> TRUE]>> }
  ELSE Metadata

RepliesOf(m) ==
  IF m = "reuse" THEN {"once"} ELSE IF m # "all" THEN {"once", "reject"} ELSE Replies

\* the tokens endpoints are made of
Tokens == {"h", "/", "v1/metrics", "v1/traces"}

RECURSIVE Strings(_)
Strings(n) ==
  IF n = 0 THEN {<<>>}
  ELSE LET shorter == Strings(n - 1)
       IN shorter \cup {Append(str, t) : str \in shorter, t \in Tokens}

\* OTEL_EXPORTER_OTLP_PROTOCOL: unset, the two values the code knows and
\* another value of the OpenTelemetry specification
Protocols == {"", "http", "grpc", "http/protobuf"}

\* process.env with none of the variables set
NoEnv == [metrics |-> <<>>, traces |-> <<>>, general |-> <<>>, protocol |-> ""]

\* OTEL_EXPORTER_OTLP_METRICS_ENDPOINT, .._TRACES_ENDPOINT, .._ENDPOINT and
\* .._PROTOCOL: in the mode "env" one endpoint for all three variables, each
\* of them set to it or unset
EnvsOf(m) ==
  IF m = "env"
  THEN { [metrics |-> IF sm THEN str ELSE <<>>, traces |-> IF st THEN str ELSE <<>>,
          general |-> IF sg THEN str ELSE <<>>, protocol |-> p] :
         str \in Strings(MaxLen), sm \in BOOLEAN, st \in BOOLEAN, sg \in BOOLEAN,
         p \in Protocols }
  ELSE {NoEnv}

\* the constructors and start() of the tracing SDK fail in the mode "trace"
OutcomesOf(m) == IF m = "trace" THEN TraceOutcomes ELSE {"started"}

InitOf(modes) ==
  /\ callContext = EmptyMap
  /\ requestToCall = EmptyMap
  /\ callToRequest = EmptyMap
  /\ permissionRequests = EmptyMap
  /\ now = 0
  /\ emitted = <<>>
  /\ lastOp = Op("init", Undef, Undef, Undef, <<>>, NoPath)
  /\ host = [c \in CallIds |-> [tool |-> Undef, sessionID |-> Undef, startTime |-> 0]]
  /\ lastAsk = [r \in ReqIds |-> [permission |-> Undef, sessionID |-> Undef, callID |-> Undef,
                                filepath |-> NoPath, timestamp |-> 0, late |-> FALSE]]
  /\ everAsked = {}
  /\ askedSince = {}
  /\ staleLink = {}
  /\ permLog = {}
  /\ enabled = FALSE
  /\ fault = FALSE
  /\ switchedOn = FALSE
  /\ configured = <<>>
  /\ loc = [added |-> 0, deleted |-> 0]
  /\ diffSum = [added |-> 0, deleted |-> 0]
  /\ firstSeen = [k \in CallIds \cup ReqIds \cup {Undef} |-> -1]
  /\ tracing = NoTracing
  /\ mode \in modes
  /\ budget = Budget(mode)

Init == InitOf(Modes)

InitGate == InitOf({"gate"})

InitPair == InitOf({"pair"})

InitCall == InitOf({"call"})

InitReuse == InitOf({"reuse"})

InitEnv == InitOf({"env"})

InitTrace == InitOf({"trace"})

Next ==
  \/ \E callID \in CallsOf(mode), i \in StartsOf(mode) :
       ToolExecuteBefore(callID, i.tool, i.sessionID)
  \/ \E callID \in CallsOf(mode), md \in MetadataOf(mode) : ToolExecuteAfter(callID, md)
  \/ \E requestID \in ReqsOf(mode), i \in AsksOf(mode), callID \in AskCallsOf(mode) :
       /\ paired(mode, requestID, callID)
       /\ EventPermissionAsked(requestID, i.permission, i.sessionID, callID, i.filepath)
  \/ \E requestID \in ReqsOf(mode), reply \in RepliesOf(mode) :
       EventPermissionReplied(requestID, reply)
  \/ /\ configEvent
     /\ \E openTelemetry \in BOOLEAN, initOk \in BOOLEAN, env \in EnvsOf(mode),
           outcome \in OutcomesOf(mode) :
          Config(openTelemetry, initOk, env, outcome)
  \/ Cleanup
  \/ Tick

Spec == Init /\ [][Next]_vars

\* the behaviours that leave the config hook free
SpecGate == InitGate /\ [][Next]_vars

\* the behaviours that follow two calls side by side
SpecPair == InitPair /\ [][Next]_vars

\* the behaviours that follow a single call
SpecCall == InitCall /\ [][Next]_vars

\* the behaviours in which two calls share a requestID
SpecReuse == InitReuse /\ [][Next]_vars

\* the behaviours in which the environment of the config hook varies
SpecEnv == InitEnv /\ [][Next]_vars

\* the behaviours in which the config hook is called again and again
SpecTrace == InitTrace /\ [][Next]_vars

\* the clock keeps advancing and setInterval keeps calling cleanup()
SpecLive == Spec /\ WF_vars(Tick) /\ WF_vars(Cleanup)

\* ------------------------------------------------------------------------
\* Vocabulary of the properties
\* ------------------------------------------------------------------------
isPermission(o) == o.kind = "permission"

isLoc(o) == o.kind = "loc"

isTool(o) == o.kind = "tool"

\* the permission / LOC / tool-execution observations of the last handler
permissionObs == SelectSeq(emitted, isPermission)

locObs == SelectSeq(emitted, isLoc)

toolObs == SelectSeq(emitted, isTool)

\* the last handler was tool.execute.after for callID and carried a filediff
toolEndWithDiff(callID) ==
  lastOp.op = "toolEnd" /\ lastOp.callID = callID /\ lastOp.md # <<>>

\* the filediff of the last tool.execute.after defines additions or deletions
diffCounts == lastOp.md # <<>> /\ (lastOp.md[1].hasAdd \/ lastOp.md[1].hasDel)

\* callID has been started by the host
started(callID) == host[callID].tool # Undef

age(t) == now - t

linkedYoung(callID) ==
  \E r \in DOMAIN permissionRequests :
    /\ permissionRequests[r].callID = callID
    /\ age(permissionRequests[r].timestamp) <= MAX_CONTEXT_AGE

repliedTo(requestID) == lastOp.op = "replied" /\ lastOp.requestID = requestID

\* the one observation of the reply carries the reply and the asked fields
replyRecorded(r) ==
  /\ Len(emitted) = 1
  /\ Len(permissionObs) = 1
  /\ permissionObs[1].reply = lastOp.reply
  /\ permissionObs[1].permission = lastAsk[r].permission
  /\ permissionObs[1].sessionID = lastAsk[r].sessionID
  /\ permissionObs[1].callID = lastAsk[r].callID
  /\ permissionObs[1].autoApproveEdit = FALSE

diffComplete == lastOp.md # <<>> /\ lastOp.md[1].hasAdd /\ lastOp.md[1].hasDel

\* the context of c reflects its toolStart and the diff of the last toolEnd
contextRoundTrip(c) ==
  /\ getContextForCall(store, c) # <<>>
  /\ getContextForCall(store, c)[1].tool = host[c].tool
  /\ getContextForCall(store, c)[1].sessionID = host[c].sessionID
  /\ getContextForCall(store, c)[1].filediff = lastOp.md

\* exactly one LOC observation, for c, with the counts of the diff
locRecorded(c) ==
  /\ Len(locObs) = 1
  /\ locObs[1].callID = c
  /\ locObs[1].tool = host[c].tool
  /\ locObs[1].sessionID = host[c].sessionID
  /\ locObs[1].additions = lastOp.md[1].additions
  /\ locObs[1].deletions = lastOp.md[1].deletions

\* C5 as stated, for diffs that define both counts: after toolStart(c, t, s)
\* and toolEnd(c, {fileDiff: d}) getContextForCall(c) returns a context with
\* tool t, session s and diff d, and exactly one LOC observation is emitted
\* for c with the additions and deletions of d.
C5_Original ==
  \A c \in CallIds :
    (toolEndWithDiff(c) /\ diffComplete /\ started(c))
      => contextRoundTrip(c) /\ locRecorded(c)

\* C5 amended: the same, provided the context of c is still stored when the
\* toolEnd is processed (it was not evicted since the toolStart).
C5_RoundTrip ==
  \A c \in CallIds :
    (toolEndWithDiff(c) /\ diffComplete /\ Has(callContext, c))
      => contextRoundTrip(c) /\ locRecorded(c)

\* a started call has ended with a complete diff and its LOC was recorded
C5_Witness ==
  \E c \in CallIds :
    /\ toolEndWithDiff(c) /\ diffComplete /\ Has(callContext, c)
    /\ callContext[c].tool = "write"
    /\ Len(locObs) = 1 /\ locObs[1].additions = 2 /\ locObs[1].deletions = 1

\* ------------------------------------------------------------------------
\* C6  Eviction bound (P4)
\* ------------------------------------------------------------------------
Range(m) == { m[k] : k \in DOMAIN m }

\* a permission.asked has registered requestID
asked(requestID) == lastAsk[requestID].permission # Undef

\* callID / requestID appears in no map, neither as a key nor as a value
callGone(c) ==
  /\ getContextForCall(store, c) = <<>>
  /\ ~Has(callToRequest, c)
  /\ c \notin Range(requestToCall)

requestGone(r) ==
  /\ getPermissionRequest(store, r) = <<>>
  /\ ~Has(requestToCall, r)
  /\ r \notin Range(callToRequest)

\* C6 as stated, for a CallContext whose linked requests were all asked
\* within its TTL: once its toolStart is TTL + sweep interval in the past
\* and cleanup() has run, getContextForCall is absent and neither index
\* holds the callID, as a key or as a value.
C6_EvictionBound ==
  \A c \in CallIds :
    ( /\ lastOp.op = "cleanup"
      /\ started(c)
      /\ now >= host[c].startTime + MAX_CONTEXT_AGE + SWEEP_INTERVAL
      /\ \A r \in DOMAIN permissionRequests :
           permissionRequests[r].callID = c
             => permissionRequests[r].timestamp <= host[c].startTime + MAX_CONTEXT_AGE )
      => callGone(c)

\* ------------------------------------------------------------------------
\* C7  Index/backing consistency
\* ------------------------------------------------------------------------
\* C7 as stated: every index entry has its backing PermissionRequest and its
\* backing CallContext.
C7_IndexBacked ==
  /\ \A r \in DOMAIN requestToCall :
       Has(permissionRequests, r) /\ Has(callContext, requestToCall[r])
  /\ \A c \in DOMAIN callToRequest :
       Has(callContext, c) /\ Has(permissionRequests, callToRequest[c])

\* ------------------------------------------------------------------------
\* C8  Bidirectional index
\* ------------------------------------------------------------------------
\* C8 as stated: requestToCall[r] = c if and only if callToRequest[c] = r.
C8_MutualInverse ==
  \A r \in ReqIds, c \in CallIds :
    (Has(requestToCall, r) /\ requestToCall[r] = c)
      <=> (Has(callToRequest, c) /\ callToRequest[c] = r)

\* ------------------------------------------------------------------------
\* C9  Idempotent cleanup (P5)
\* ------------------------------------------------------------------------
\* the clock values from now on
ClockValues == { now + k * SWEEP_INTERVAL : k \in 0..MaxTicks }

\* C9: at every clock value, cleanup() run twice in succession leaves the
\* four maps as cleanup() run once does.
C9_IdempotentCleanup ==
  \A t \in ClockValues : cleanup(cleanup(store, t), t) = cleanup(store, t)

\* a sweep has just evicted a call and a request and kept another request
C9_Witness ==
  /\ lastOp.op = "cleanup"
  /\ \E c \in CallIds : started(c) /\ ~Has(callContext, c)
  /\ \E r \in ReqIds : asked(r) /\ ~Has(permissionRequests, r)
  /\ permissionRequests # EmptyMap
  /\ cleanup(store, now) = store

\* ------------------------------------------------------------------------
\* C10  TTL invariant
\* ------------------------------------------------------------------------
\* C10 as stated: no stored CallContext is older than the TTL.
C10_Original ==
  \A c \in DOMAIN callContext : age(callContext[c].startTime) <= MAX_CONTEXT_AGE

\* C10 amended: right after a cleanup sweep no stored CallContext is older
\* than the TTL (between two sweeps a context may be).
C10_AfterSweep ==
  lastOp.op = "cleanup" =>
    \A c \in DOMAIN callContext : age(callContext[c].startTime) <= MAX_CONTEXT_AGE

\* a sweep has evicted one call and kept one that is exactly TTL old
C10_Witness ==
  /\ lastOp.op = "cleanup"
  /\ \E c \in CallIds : started(c) /\ ~Has(callContext, c)
  /\ \E c \in DOMAIN callContext : age(callContext[c].startTime) = MAX_CONTEXT_AGE

\* ------------------------------------------------------------------------
\* C11  Self-cleaning store
\* ------------------------------------------------------------------------
storeEmpty ==
  /\ callContext = EmptyMap
  /\ permissionRequests = EmptyMap
  /\ requestToCall = EmptyMap
  /\ callToRequest = EmptyMap

\* no further host event arrives, and the clock still has more than one TTL
\* to run, so that every entry made so far gets older than the TTL
quiet == budget = 0 /\ now + MAX_CONTEXT_AGE < MaxNow

\* C11 as stated: once no further host events arrive, with the clock and
\* the periodic sweep running the store eventually reaches a state in which
\* all four maps are empty.
C11_SelfCleaning == quiet ~> storeEmpty

\* ------------------------------------------------------------------------
\* C12  Unknown reply (Scenario C)
\* ------------------------------------------------------------------------
\* C12: a permissionReplied(r, d) for a requestID with no stored
\* PermissionRequest (never asked, or already evicted) leaves the four maps
\* as they are, so sets no decision, and emits no observation; the store's
\* registerPermissionReplied alone is a no-op for it as well.
C12_UnknownReply ==
  /\ \A r \in ReqIds, d \in Replies :
       ~Has(permissionRequests, r)
         => /\ repliedStore(store, r, d) = store
            /\ repliedObs(store, r, d) = <<>>
            /\ registerPermissionReplied(store, r, d) = store
  /\ \A r \in ReqIds :
       (repliedTo(r) /\ ~Has(permissionRequests, r)) => emitted = <<>>

\* a reply has arrived for a request the sweep had evicted, while a call
\* context was stored
C12_Witness ==
  \E r \in ReqIds :
    /\ repliedTo(r) /\ asked(r) /\ ~Has(permissionRequests, r)
    /\ emitted = <<>>
    /\ \E c \in DOMAIN callContext : callContext[c].decision = Undef

\* ------------------------------------------------------------------------
\* C13  Missing context at toolEnd
\* ------------------------------------------------------------------------
\* C13: a toolEnd(c, metadata) for a callID with no CallContext (never
\* started, or evicted by the sweep) leaves the four maps as they are and
\* emits no tool-execution, LOC or permission observation; the store's
\* registerToolEnd alone is a no-op for it as well.
C13_MissingContext ==
  /\ \A c \in CallIds :
       ~Has(callContext, c)
         => \A md \in Metadata :
              /\ afterStore(store, c, md) = store
              /\ afterObs(store, now, c, host[c].tool, host[c].sessionID, md) = <<>>
              /\ registerToolEnd(store, c, md, <<afterFiles(md)>>, afterLanguage(md)) = store
  /\ \A c \in CallIds :
       (lastOp.op = "toolEnd" /\ lastOp.callID = c /\ ~Has(callContext, c))
         => emitted = <<>>

\* a call that ran longer than the TTL has ended with a diff after the sweep
\* evicted its context
C13_Witness ==
  \E c \in CallIds :
    /\ toolEndWithDiff(c) /\ diffCounts /\ started(c)
    /\ ~Has(callContext, c)
    /\ now - host[c].startTime > MAX_CONTEXT_AGE
    /\ emitted = <<>>

recorded == recordAll(enabled, emitted).updates

\* C20: while no config call with openTelemetry set has got through
\* Metrics.initialize, the sink is not enabled and no handler makes it
\* record a LOC, tool-execution or permission data point.
C20_TelemetryGating ==
  ~switchedOn
    => /\ ~enabled
       /\ recorded = <<>>
       /\ \A c \in CallIds, md \in Metadata, i \in StartInputs :
            recordAll(enabled, afterObs(store, now, c, i.tool, i.sessionID, md)).updates = <<>>
       /\ \A r \in ReqIds, d \in Replies :
            recordAll(enabled, repliedObs(store, r, d)).updates = <<>>

\* with telemetry never switched on, a toolEnd stored its diff in the
\* correlation store and made its three calls of the sink, which recorded
\* nothing
C20_Witness ==
  \E c \in DOMAIN callContext :
    /\ ~switchedOn
    /\ toolEndWithDiff(c) /\ diffCounts
    /\ callContext[c].filediff = lastOp.md
    /\ Len(emitted) = 3
    /\ recorded = <<>>

\* ------------------------------------------------------------------------
\* C15  Permission request storage
\* ------------------------------------------------------------------------
\* C15 as stated: as long as a request registered by
\* registerPermissionAsked(r, p, s, c, f) is stored, getPermissionRequest(r)
\* returns a record with permission p, session s, callId c and filepath f
\* of the last registration of r, whatever replies have been processed.
C15_RequestStored ==
  \A r \in DOMAIN permissionRequests :
    /\ getPermissionRequest(store, r) # <<>>
    /\ getPermissionRequest(store, r)[1].permission = lastAsk[r].permission
    /\ getPermissionRequest(store, r)[1].sessionID = lastAsk[r].sessionID
    /\ getPermissionRequest(store, r)[1].callID = lastAsk[r].callID
    /\ filepathOf(getPermissionRequest(store, r)[1]) = lastAsk[r].filepath

\* ------------------------------------------------------------------------
\* C16  Duplicate callId is last-write-wins
\* ------------------------------------------------------------------------
\* the context a toolStart(callID, tool, sessionID) at time t creates
freshContext(tool, sessionID, t) ==
  [tool |-> tool, sessionID |-> sessionID, startTime |-> t,
   decision |-> Undef, filediff |-> <<>>, files |-> <<>>, language |-> Undef]

\* C16: whatever context a callID has, a toolStart(c, t2, s2) makes
\* getContextForCall(c) return a context with tool t2, session s2, the
\* start time of this toolStart and no decision, fileDiff, files or
\* language; this holds for the toolStart just processed and for every
\* toolStart the host may issue next.
C16_LastWriteWins ==
  /\ \A c \in CallIds :
       (lastOp.op = "toolStart" /\ lastOp.callID = c)
         => getContextForCall(store, c)
              = <<freshContext(host[c].tool, host[c].sessionID, now)>>
  /\ \A c \in CallIds, i \in StartInputs :
       getContextForCall(registerToolStart(store, c, i.tool, i.sessionID, now), c)
         = <<freshContext(i.tool, i.sessionID, now)>>

\* a callID whose context held the diff of an ended call has been started
\* again, and its context is fresh
C16_Witness ==
  \E c \in CallIds :
    /\ lastOp.op = "toolStart" /\ lastOp.callID = c
    /\ now = 0
    /\ [callID |-> c, reply |-> "auto", autoApproveEdit |-> TRUE] \in permLog
    /\ getContextForCall(store, c) = <<freshContext(host[c].tool, host[c].sessionID, 0)>>

\* ------------------------------------------------------------------------
\* C17  Late-prompt race
\* ------------------------------------------------------------------------
\* the history entry of the reply just processed, for callID
replyEntry(callID) == [callID |-> callID, reply |-> lastOp.reply, autoApproveEdit |-> FALSE]

\* both records of callID have been emitted, the second by the last handler
bothRecords(callID) ==
  /\ autoEntry(callID) \in permLog
  /\ replyEntry(callID) \in permLog
  /\ Len(permissionObs) = 1
  /\ permissionObs[1].callID = callID
  /\ permissionObs[1].reply = lastOp.reply
  /\ permissionObs[1].autoApproveEdit = FALSE

unresolved(requestID) ==
  /\ Has(permissionRequests, requestID)
  /\ \/ permissionRequests[requestID].callID = Undef
     \/ ~Has(callContext, permissionRequests[requestID].callID)

\* C18: a permissionReplied(r, d) for a stored request that has no callId,
\* or whose call has no stored context, leaves the four maps as they are
\* (no decision is set) and emits exactly one permission observation, with
\* the permission and session of the stored request, reply d, tool
\* "unknown" and autoApproveEdit false.
C18_UnresolvedReply ==
  /\ \A r \in ReqIds, d \in Replies :
       unresolved(r)
         => /\ repliedStore(store, r, d) = store
            /\ repliedObs(store, r, d)
                 = <<PermObs(permissionRequests[r].permission, d,
                             permissionRequests[r].sessionID, "unknown", "unknown",
                             permissionRequests[r].callID, NoPath, FALSE)>>
  /\ \A r \in ReqIds :
       (repliedTo(r) /\ unresolved(r))
         => /\ Len(emitted) = 1
            /\ emitted[1].kind = "permission"
            /\ emitted[1].tool = "unknown"
            /\ emitted[1].autoApproveEdit = FALSE
            /\ emitted[1].permission = lastAsk[r].permission
            /\ emitted[1].sessionID = lastAsk[r].sessionID

\* a reply has arrived for a stored request whose call the sweep had evicted
C18_Witness ==
  \E r \in ReqIds :
    /\ repliedTo(r) /\ unresolved(r)
    /\ permissionRequests[r].callID # Undef
    /\ started(permissionRequests[r].callID)
    /\ Len(emitted) = 1 /\ emitted[1].tool = "unknown"

\* ------------------------------------------------------------------------
\* C19  Per-key independence
\* ------------------------------------------------------------------------
\* the requests linked to callID in the stored records or in either index
linkedTo(callID) ==
  { r \in ReqIds :
      \/ Has(permissionRequests, r) /\ permissionRequests[r].callID = callID
      \/ Has(requestToCall, r) /\ requestToCall[r] = callID
      \/ Has(callToRequest, callID) /\ callToRequest[callID] = r }

\* the stores a toolStart, toolEnd, permissionAsked or permissionReplied
\* concerning callID can lead to from the present one, the requests
\* involved being none of those in others
concerning(callID, others) ==
  { registerToolStart(store, callID, i.tool, i.sessionID, now) : i \in StartInputs }
  \cup { afterStore(store, callID, md) : md \in Metadata }
  \cup { registerPermissionAsked(store, r, i.permission, i.sessionID, callID, now) :
           r \in ReqIds \ others, i \in AskInputs }
  \cup { repliedStore(store, r, d) : r \in linkedTo(callID) \ others, d \in Replies }

\* callID and its requests answer in every store of Ss as they do in the
\* present one: the same context, the same answer of
\* wasPermissionAskedForCall, and the same observations and context after
\* the next toolEnd of callID or the next reply to one of its requests
sameFor(callID, Ss) ==
  /\ LET context == getContextForCall(store, callID)
         wasAsked == wasPermissionAskedForCall(store, callID)
     IN \A S \in Ss :
          /\ getContextForCall(S, callID) = context
          /\ wasPermissionAskedForCall(S, callID) = wasAsked
  /\ \A md \in Metadata :
       LET observed == afterObs(store, now, callID, host[callID].tool, host[callID].sessionID, md)
           context == getContextForCall(afterStore(store, callID, md), callID)
       IN \A S \in Ss :
            /\ afterObs(S, now, callID, host[callID].tool, host[callID].sessionID, md) = observed
            /\ getContextForCall(afterStore(S, callID, md), callID) = context
  /\ \A r \in linkedTo(callID), d \in Replies :
       LET observed == repliedObs(store, r, d)
           context == getContextForCall(repliedStore(store, r, d), callID)
       IN \A S \in Ss :
            /\ repliedObs(S, r, d) = observed
            /\ getContextForCall(repliedStore(S, r, d), callID) = context

\* C19: for two distinct callIDs with distinct requests linked to them, no
\* toolStart, toolEnd, permissionAsked or permissionReplied concerning the
\* one changes the context of the other, the answer of
\* wasPermissionAskedForCall for it, or what its own next toolEnd or reply
\* emits and stores; and an observation that carries a callID carries that
\* of the handler's own event.  (Each event of the one thus commutes with
\* each event of the other, which gives the independence of interleavings.)
C19_PerKeyIndependence ==
  /\ \A c1 \in CallIds, c2 \in CallIds :
       (c1 # c2 /\ linkedTo(c1) \cap linkedTo(c2) = {})
         => sameFor(c2, concerning(c1, linkedTo(c2)))
  /\ \A k \in DOMAIN emitted :
       emitted[k].kind # "tool"
         => emitted[k].callID
              = IF lastOp.op = "toolEnd" THEN lastOp.callID
                ELSE lastAsk[lastOp.requestID].callID

\* a prompt has been linked to one call while another call keeps its own
C19_Witness ==
  \E c1 \in CallIds, c2 \in CallIds :
    /\ c1 # c2
    /\ lastOp.op = "asked" /\ lastOp.callID = c1
    /\ wasPermissionAskedForCall(store, c2)
    /\ linkedTo(c1) # {} /\ linkedTo(c2) # {}
    /\ linkedTo(c1) \cap linkedTo(c2) = {}

\* ------------------------------------------------------------------------
\* C22  Context creation only on tool-start
\* ------------------------------------------------------------------------
\* C22: a callID that is in callContext after a step and was not before it
\* is the callID of a toolStart that step processed; so no toolEnd,
\* permission.asked, permission.replied or sweep adds a context, and an
\* evicted context does not come back by a late toolEnd or reply.
C22_CreationOnlyOnStart ==
  [][ \A c \in CallIds :
        (c \in DOMAIN callContext' /\ c \notin DOMAIN callContext)
          => (lastOp'.op = "toolStart" /\ lastOp'.callID = c) ]_vars

\* a reply has resolved, through requestToCall, to a call whose context the
\* sweep had evicted, and the call still has no context
C22_Witness ==
  \E c \in CallIds :
    /\ started(c) /\ ~Has(callContext, c)
    /\ now - host[c].startTime > MAX_CONTEXT_AGE
    /\ lastOp.op = "replied"
    /\ Has(requestToCall, lastOp.requestID)
    /\ requestToCall[lastOp.requestID] = c
    /\ Len(emitted) = 1 /\ emitted[1].callID = c

\* ------------------------------------------------------------------------
\* C23  Emission conditions at toolEnd
\* ------------------------------------------------------------------------
\* the last handler was tool.execute.after for callID and found its context
toolEndLive(callID) ==
  lastOp.op = "toolEnd" /\ lastOp.callID = callID /\ Has(callContext, callID)

\* C23: a toolEnd(c) with a live context emits exactly one tool-execution
\* observation, with status "success" and duration now - startTime >= 0,
\* and emits it first; it emits one LOC observation if the metadata carries
\* a filediff with additions or deletions defined and none otherwise; a
\* permission observation it emits is the auto-approval one and comes with
\* the LOC observation; with no filediff it emits the tool-execution
\* observation alone.
C23_EmissionConditions ==
  \A c \in CallIds :
    toolEndLive(c)
      => /\ Len(toolObs) = 1
         /\ emitted[1] = toolObs[1]
         /\ toolObs[1].status = "success"
         /\ toolObs[1].duration = now - callContext[c].startTime
         /\ toolObs[1].duration >= 0
         /\ Len(locObs) = (IF diffCounts THEN 1 ELSE 0)
         /\ Len(permissionObs) <= Len(locObs)
         /\ \A k \in DOMAIN permissionObs :
              permissionObs[k].reply = "auto" /\ permissionObs[k].autoApproveEdit
         /\ lastOp.md = <<>> => Len(emitted) = 1

\* a call has ended, some time after its start, with a filediff that
\* defines neither additions nor deletions: one observation, of the tool
C23_Witness ==
  \E c \in CallIds :
    /\ toolEndLive(c)
    /\ lastOp.md # <<>> /\ ~diffCounts
    /\ Len(emitted) = 1 /\ emitted[1].kind = "tool"
    /\ emitted[1].duration = SWEEP_INTERVAL

\* ------------------------------------------------------------------------
\* C24  Frame conditions of the mutators
\* ------------------------------------------------------------------------
\* store T has the permission requests, the two indices and the contexts of
\* the present store, the context of callID possibly excepted
sameOutside(T, callID) ==
  /\ T.permissionRequests = permissionRequests
  /\ T.requestToCall = requestToCall
  /\ T.callToRequest = callToRequest
  /\ DOMAIN T.callContext = DOMAIN callContext
  /\ \A x \in DOMAIN callContext \ {callID} : T.callContext[x] = callContext[x]

\* C24: in every reachable store, registerToolEnd(c, {filediff, files,
\* language}), with each of the three present or absent, leaves everything
\* but the filediff, files and language of callContext[c] as it is; and
\* registerPermissionReplied(r, d) leaves everything as it is but the
\* decision of the context of requestToCall[r], which becomes d.
C24_FrameConditions ==
  /\ \A c \in CallIds, md \in Metadata :
       \A files \in {<<>>, <<afterFiles(md)>>}, language \in {Undef, afterLanguage(md)} :
         LET T == registerToolEnd(store, c, md, files, language)
         IN /\ sameOutside(T, c)
            /\ Has(callContext, c)
                 => T.callContext[c]
                      = [callContext[c] EXCEPT !.filediff = T.callContext[c].filediff,
                                               !.files = T.callContext[c].files,
                                               !.language = T.callContext[c].language]
  /\ \A r \in ReqIds, d \in Replies :
       LET T == registerPermissionReplied(store, r, d)
           c == getCallIDForRequest(store, r)
       IN /\ sameOutside(T, c)
          /\ Has(callContext, c)
               => T.callContext[c] = [callContext[c] EXCEPT !.decision = d]

\* of two calls under way, one has ended with a diff; its context holds the
\* diff, and its tool, session and start time and the context of the other
\* call are as the two toolStarts left them
C24_Witness ==
  \E c1 \in CallIds, c2 \in CallIds :
    /\ c1 # c2
    /\ toolEndWithDiff(c1) /\ diffCounts
    /\ Has(callContext, c1) /\ Has(callContext, c2)
    /\ callContext[c1].filediff = lastOp.md
    /\ callContext[c1].tool = host[c1].tool
    /\ callContext[c1].startTime = host[c1].startTime
    /\ callContext[c2] = freshContext(host[c2].tool, host[c2].sessionID, host[c2].startTime)

\* ------------------------------------------------------------------------
\* C25  Sweep retention
\* ------------------------------------------------------------------------
\* C25: in every reachable store, a cleanup() at the present time keeps
\* every CallContext whose startTime is at most the TTL in the past and
\* every PermissionRequest whose timestamp is at most the TTL in the past,
\* getContextForCall and getPermissionRequest answering for them after it
\* as before it; the contexts and requests it removes are those older than
\* the TTL.
C25_SweepRetention ==
  LET T == cleanup(store, now)
  IN /\ \A c \in DOMAIN callContext :
          IF age(callContext[c].startTime) <= MAX_CONTEXT_AGE
          THEN getContextForCall(T, c) = getContextForCall(store, c)
          ELSE getContextForCall(T, c) = <<>>
     /\ \A r \in DOMAIN permissionRequests :
          IF age(permissionRequests[r].timestamp) <= MAX_CONTEXT_AGE
          THEN getPermissionRequest(T, r) = getPermissionRequest(store, r)
          ELSE getPermissionRequest(T, r) = <<>>

\* a sweep has evicted a request older than the TTL and has kept a context
\* whose age is the TTL itself
C25_Witness ==
  \E c \in CallIds, r \in ReqIds :
    /\ lastOp.op = "cleanup"
    /\ asked(r) /\ getPermissionRequest(store, r) = <<>>
    /\ Has(callContext, c)
    /\ age(callContext[c].startTime) = MAX_CONTEXT_AGE

\* ------------------------------------------------------------------------
\* C27  Reused callId keeps its old permission link
\* ------------------------------------------------------------------------
\* the record of a manual decision for callID is in the history
decided(callID) ==
  \E d \in Replies : [callID |-> callID, reply |-> d, autoApproveEdit |-> FALSE] \in permLog

C28_LongRunningPrompt ==
  /\ [](\A r \in ReqIds :
          /\ (lastOp.op = "cleanup" /\ asked(r)
                /\ age(lastAsk[r].timestamp) > MAX_CONTEXT_AGE)
               => ~Has(permissionRequests, r)
          /\ (asked(r) /\ ~Has(permissionRequests, r))
               => age(lastAsk[r].timestamp) > MAX_CONTEXT_AGE)
  /\ [][ \A r \in ReqIds :
          (lastOp'.op = "replied" /\ lastOp'.requestID = r
             /\ asked(r) /\ ~Has(permissionRequests, r))
            => /\ emitted' = <<>>
               /\ permLog' = permLog
               /\ callContext' = callContext ]_vars

\* the reply to a prompt of a call still under way has arrived TTL plus a
\* sweep interval after the prompt, after the sweep: nothing was emitted and
\* the call has no decision
C28_Witness ==
  \E r \in ReqIds, c \in CallIds :
    /\ repliedTo(r) /\ asked(r) /\ lastAsk[r].callID = c
    /\ age(lastAsk[r].timestamp) >= MAX_CONTEXT_AGE + SWEEP_INTERVAL
    /\ ~Has(permissionRequests, r)
    /\ Has(callContext, c) /\ callContext[c].decision = Undef
    /\ emitted = <<>> /\ ~decided(c)

\* ------------------------------------------------------------------------
\* C29  Language attribution depends on event order
\* ------------------------------------------------------------------------
\* request r is stored for call c, whose context is as its toolStart made
\* it, a decision apart: no toolEnd of this invocation has been processed
pendingFor(r, c) ==
  /\ Has(permissionRequests, r) /\ permissionRequests[r].callID = c
  /\ Has(callContext, c)
  /\ [callContext[c] EXCEPT !.decision = Undef]
       = freshContext(host[c].tool, host[c].sessionID, host[c].startTime)

\* C29: whenever a request r is stored for a call c that has been started
\* and has not ended, a reply to r processed now carries language "unknown",
\* and the same reply processed after toolEnd(c, {fileDiff}) carries the
\* language inferred from the file of the diff; in both orders it carries
\* the tool of the context.  And the observation of a reply just processed
\* for a call with a context carries the tool and the language of that
\* context, "unknown" standing for a language not yet set.
C29_LanguageByOrder ==
  /\ \A r \in ReqIds, c \in CallIds :
       pendingFor(r, c)
         => \A d \in Replies :
              /\ repliedObs(store, r, d)[1].language = "unknown"
              /\ repliedObs(store, r, d)[1].tool = host[c].tool
              /\ \A md \in Metadata \ {<<>>} :
                   LET late == repliedObs(afterStore(store, c, md), r, d)[1]
                   IN /\ late.language = inferLanguage(md[1].file)
                      /\ late.tool = host[c].tool
  /\ \A r \in ReqIds :
       (repliedTo(r) /\ Has(permissionRequests, r)
          /\ Has(callContext, permissionRequests[r].callID))
         => LET ctx == callContext[permissionRequests[r].callID]
            IN /\ emitted[1].tool = ctx.tool
               /\ emitted[1].language
                    = (IF ctx.language = Undef THEN "unknown" ELSE ctx.language)

\* the reply to a prompt has been processed after the toolEnd of its call,
\* which carried the diff of a TypeScript file
C29_Witness ==
  \E r \in ReqIds, c \in CallIds :
    /\ repliedTo(r) /\ Has(permissionRequests, r) /\ permissionRequests[r].callID = c
    /\ Has(callContext, c) /\ callContext[c].filediff # <<>>
    /\ callContext[c].filediff[1].file = <<"a", "TS">>
    /\ Len(emitted) = 1
    /\ emitted[1].language = "typescript"
    /\ emitted[1].tool = host[c].tool

\* ------------------------------------------------------------------------
\* C21  HTTP endpoint path
\* ------------------------------------------------------------------------
\* the protocol in force: OTEL_EXPORTER_OTLP_PROTOCOL, or "http"
protocolOf(env) == IF env.protocol # "" THEN env.protocol ELSE "http"

\* str ends with the path, and what comes before it does not
endsOnce(str, path) ==
  /\ endsWith(str, path)
  /\ ~endsWith(SubSeq(str, 1, Len(str) - Len(path)), path)

\* what C21 says of the endpoint a parse function returns for the endpoint
\* the environment configures, when that one does not hold the path twice
\* at its end already
pathRule(given, returned, again, protocol, path) ==
  /\ (protocol = "http" /\ ~endsWith(given, path \o path))
       => /\ endsOnce(returned, path)
          /\ again = returned
          /\ endsWith(given, path) => returned = given
          /\ ~endsWith(given, path) => returned = dropTrailingSlash(given) \o path
  /\ protocol = "grpc" => returned = given

\* C21 as stated: after a config call that parsed the environment, the
\* metrics endpoint ends with "/v1/metrics" exactly once under protocol http
\* (appended to a base URL with or without a trailing slash, left alone when
\* already there), parsing the result again returns it, and under grpc the
\* endpoint is the configured one; likewise for traces with "/v1/traces".
C21_EndpointPath ==
  configured # <<>>
    => LET env == configured[1].env
           metrics == configured[1].metrics.endpoint
           traces == configured[1].traces.endpoint
       IN /\ pathRule(orElse(env.metrics, orElse(env.general, DEFAULT_ENDPOINT)),
                      metrics,
                      parseMetricsConfig([env EXCEPT !.metrics = metrics]).endpoint,
                      protocolOf(env), METRICS_PATH)
          /\ pathRule(orElse(env.traces, orElse(env.general, DEFAULT_ENDPOINT)),
                      traces,
                      parseTracesConfig([env EXCEPT !.traces = traces]).endpoint,
                      protocolOf(env), TRACES_PATH)

\* ------------------------------------------------------------------------
\* C26  Sweep transparency inside the TTL window
\* ------------------------------------------------------------------------
\* the calls the requests linked to callID name, callID among them
namedWith(callID) ==
  {callID}
  \cup { requestToCall[r] : r \in { q \in linkedTo(callID) : Has(requestToCall, q) } }
  \cup { permissionRequests[r].callID :
           r \in { q \in linkedTo(callID) : Has(permissionRequests, q) } }

\* every event so far that concerned callID, a request linked to it or a
\* call such a request names lies at most the TTL in the past, so an event
\* that concerns them now falls within the TTL of the earliest
inWindow(callID) ==
  \A k \in namedWith(callID) \cup linkedTo(callID) :
    firstSeen[k] >= 0 => age(firstSeen[k]) <= MAX_CONTEXT_AGE

\* the decision recorded for callID in S
decisionOf(S, callID) ==
  IF Has(S.callContext, callID) THEN S.callContext[callID].decision ELSE Undef

\* C26 as stated: while the events concerning a call c and its linked
\* requests lie within the TTL of the earliest of them, the next toolEnd
\* of c or reply to one of its requests emits the same observations and
\* records the same decision for c whether or not cleanup() runs just
\* before it.
C26_SweepTransparency ==
  \A c \in CallIds :
    inWindow(c)
      => LET T == cleanup(store, now)
         IN /\ \A md \in Metadata :
                 /\ afterObs(T, now, c, host[c].tool, host[c].sessionID, md)
                      = afterObs(store, now, c, host[c].tool, host[c].sessionID, md)
                 /\ decisionOf(afterStore(T, c, md), c)
                      = decisionOf(afterStore(store, c, md), c)
            /\ \A r \in linkedTo(c), d \in Replies :
                 /\ repliedObs(T, r, d) = repliedObs(store, r, d)
                 /\ decisionOf(repliedStore(T, r, d), c)
                      = decisionOf(repliedStore(store, r, d), c)

\* ------------------------------------------------------------------------
\* C30  LOC conservation
\* ------------------------------------------------------------------------
\* the data points the last handler added to an instrument
pointsOf(instrument) ==
  { j \in 1..Len(recorded) : recorded[j].instrument = instrument }

\* C30: once the sink is enabled, the added-lines counter totals the
\* additions of the file diffs of all toolEnds that found a live context,
\* and the deleted-lines counter their deletions; a toolEnd whose diff has
\* no additions (deletions) adds no data point to the added-lines
\* (deleted-lines) counter, and one with some adds exactly one.
C30_LocConservation ==
  /\ loc = diffSum
  /\ \A i \in 1..Len(emitted) :
       emitted[i].kind = "loc"
         => /\ Cardinality(pointsOf("loc.added"))
                 = IF emitted[i].additions = 0 THEN 0 ELSE 1
            /\ Cardinality(pointsOf("loc.deleted"))
                 = IF emitted[i].deletions = 0 THEN 0 ELSE 1

\* a second toolEnd with a file diff has been counted on top of the first
C30_Witness ==
  /\ lastOp.op = "toolEnd" /\ lastOp.md # <<>>
  /\ enabled
  /\ loc.added = 4 /\ loc.deleted = 2
  /\ pointsOf("loc.added") # {}

\* ------------------------------------------------------------------------
\* C31  Tracing initializes at most once
\* ------------------------------------------------------------------------
\* the configs a call of Traces.initialize can carry: the one the config
\* hook parses from the environment, the same disabled, the same without
\* an endpoint
TracesConfigs ==
  LET parsed == parseTracesConfig(NoEnv)
  IN {parsed, [parsed EXCEPT !.enabled = FALSE], [parsed EXCEPT !.endpoint = <<>>]}

usable(config) == config.enabled /\ config.endpoint # <<>>

\* C31: once Traces.initialize has succeeded, the instance that succeeded
\* is the last one constructed and the one sdk holds, and a further call,
\* whatever its config and whatever the SDK would do, constructs and starts
\* nothing and leaves sdk and initialized as they are; a call that fails
\* leaves initialized false, and the next call with a usable config whose
\* SDK starts constructs a new instance and sets initialized.
C31_InitializeOnce ==
  /\ tracing.initialized => tracing.sdk # 0 /\ tracing.sdk = tracing.created
  /\ configured # <<>>
       => /\ configured[1].result = "started" => tracing.initialized
          /\ configured[1].result = "failed" => ~tracing.initialized
  /\ \A config \in TracesConfigs, outcome \in TraceOutcomes :
       LET T == TracesInitialize(tracing, config, outcome)
       IN /\ tracing.initialized => T = tracing
          /\ (~tracing.initialized /\ outcome # "started")
               => /\ ~T.initialized
                  /\ \A again \in TracesConfigs :
                       usable(again)
                         => LET R == TracesInitialize(T, again, "started")
                            IN /\ R.initialized
                               /\ R.created = T.created + 1
                               /\ R.sdk = R.created

\* start() of the first instance threw, the second call succeeded, and the
\* config hook has just called initialize once more
C31_Witness ==
  /\ lastOp.op = "config"
  /\ configured # <<>> /\ configured[1].result = "skipped"
  /\ tracing.initialized
  /\ tracing.created = 2 /\ tracing.sdk = 2 /\ tracing.starts = 2

====
